---- MODULE Spec2Model ----
(***************************************************************************)
(* Projects gallery of src/profile/index.js: the fetch / cache / merge /   *)
(* sort pipeline of initProjects and the filter panel it wires.            *)
(*                                                                         *)
(* Text is a sequence of one-character strings, so that pattern matching,  *)
(* escaping and substring search are computed character by character.      *)
(* An ISO timestamp is represented by the instant it denotes (ms).         *)
(***************************************************************************)
EXTENDS Integers, Sequences, FiniteSets, TLC

\* ------------------------------------------------------------------------
\* Bounds of the model
\* ------------------------------------------------------------------------
\* longest primary listing GitHub answers with
MaxListing == 2
\* longest pinned listing GitHub answers with
MaxPinned == 1
\* how many single milliseconds the clock may be advanced by
MaxTicks == 1
\* how many times the clock may be advanced by CACHE_TTL
MaxHours == 1
\* how many gestures the user makes on the controls of one page
MaxEvents == 2

\* ------------------------------------------------------------------------
\* Program constants
\* ------------------------------------------------------------------------
CACHE_TTL == 1000 * 60 * 60
DEBOUNCE_MS == 220
TRUNCATE_N == 120
PINNED_WINDOW == 10
\* Date.now() when the model starts (any instant after the epoch)
StartTime == 1

\* JS null / undefined for text-valued and number-valued properties
NullT == <<"null">>
UndefinedT == <<"undefined">>
NullN == -1

IsFalsyT(s) == s = NullT \/ s = UndefinedT \/ s = <<>>
OrT(a, b) == IF IsFalsyT(a) THEN b ELSE a

\* ------------------------------------------------------------------------
\* Text helpers
\* ------------------------------------------------------------------------
toLowerChar(c) ==
  CASE c = "A" -> "a"
    [] c = "B" -> "b"
    [] c = "G" -> "g"
    [] c = "J" -> "j"
    [] c = "S" -> "s"
    [] c = "F" -> "f"
    [] c = "U" -> "u"
    [] OTHER -> c

toLowerCase(s) == [i \in 1..Len(s) |-> toLowerChar(s[i])]

\* String.prototype.includes
includes(hay, needle) ==
  \E i \in 0..(Len(hay) - Len(needle)) :
    \A j \in 1..Len(needle) : hay[i + j] = needle[j]

\* String.prototype.trim for the blanks the model uses
RECURSIVE trimLeft(_)
trimLeft(s) == IF s # <<>> /\ Head(s) = " " THEN trimLeft(Tail(s)) ELSE s
RECURSIVE trimRight(_)
trimRight(s) ==
  IF s # <<>> /\ s[Len(s)] = " " THEN trimRight(SubSeq(s, 1, Len(s) - 1)) ELSE s
trim(s) == trimRight(trimLeft(s))

RECURSIVE join(_, _)
join(parts, sep) ==
  IF parts = <<>> THEN <<>>
  ELSE IF Len(parts) = 1 THEN parts[1]
  ELSE parts[1] \o sep \o join(Tail(parts), sep)

\* ------------------------------------------------------------------------
\* matchesPattern: new RegExp('^' + p.replace(/\*/g, '.*') + '$', 'i')
\* Over the characters a repository name can hold (letters, digits, - _ .)
\* the only regular-expression metacharacter besides the substituted * is
\* the dot, which matches any one character.
\* ------------------------------------------------------------------------
RECURSIVE rxTest(_, _)
rxTest(p, name) ==
  IF p = <<>> THEN name = <<>>
  ELSE IF Head(p) = "*"
    THEN rxTest(Tail(p), name) \/ (name # <<>> /\ rxTest(p, Tail(name)))
  ELSE /\ name # <<>>
       /\ (Head(p) = "." \/ toLowerChar(Head(p)) = toLowerChar(Head(name)))
       /\ rxTest(Tail(p), Tail(name))

matchesPattern(name, patterns) ==
  IF patterns = <<>> THEN FALSE
  ELSE \E i \in 1..Len(patterns) : rxTest(patterns[i], name)

\* ------------------------------------------------------------------------
\* escapeHtml and truncate
\* ------------------------------------------------------------------------
escapeChar(c) ==
  CASE c = "&" -> <<"&", "a", "m", "p", ";">>
    [] c = "<" -> <<"&", "l", "t", ";">>
    [] c = ">" -> <<"&", "g", "t", ";">>
    [] c = "\"" -> <<"&", "q", "u", "o", "t", ";">>
    [] OTHER -> <<c>>

RECURSIVE escapeHtml(_)
escapeHtml(str) ==
  IF str = <<>> THEN <<>> ELSE escapeChar(Head(str)) \o escapeHtml(Tail(str))

truncate(str, n) ==
  IF IsFalsyT(str) THEN <<>>
  ELSE IF Len(str) > n THEN SubSeq(str, 1, n - 1) \o <<"...">> ELSE str

\* ------------------------------------------------------------------------
\* normalizeRepo.  Both listings reach it in the REST shape (fetchPinned has
\* already renamed the GraphQL fields), so the GraphQL fall-backs
\* r.homepageUrl, r.primaryLanguage and r.repository_topics are undefined.
\* ------------------------------------------------------------------------
normalizeRepo(r) ==
  [ name        |-> r.name,
    description |-> OrT(r.description, <<>>),
    html_url    |-> OrT(r.html_url, r.url),
    homepage    |-> OrT(OrT(r.homepage, UndefinedT), NullT),
    stars       |-> IF r.stargazers_count = NullN THEN 0 ELSE r.stargazers_count,
    forks       |-> IF r.forks_count = NullN THEN 0 ELSE r.forks_count,
    updated     |-> IF r.pushed_at # NullN THEN r.pushed_at ELSE r.updated_at,
    language    |-> OrT(r.language, <<"U", "n", "k", "n", "o", "w", "n">>),
    topics      |-> r.topics ]

\* new Date(x).getTime(): new Date(null) is the epoch
DateMs(x) == IF x = NullN THEN 0 ELSE x

\* ------------------------------------------------------------------------
\* dedupeByName: filter with a Set of the names seen so far
\* ------------------------------------------------------------------------
RECURSIVE dedupeFrom(_, _)
dedupeFrom(arr, seen) ==
  IF arr = <<>> THEN <<>>
  ELSE IF Head(arr).name \in seen THEN dedupeFrom(Tail(arr), seen)
  ELSE <<Head(arr)>> \o dedupeFrom(Tail(arr), seen \cup {Head(arr).name})

\* (variant: the later record of a name replaces the earlier one)
dedupeKeepLast(arr) ==
  LET Last(i) == \A j \in (i + 1)..Len(arr) : arr[j].name # arr[i].name
      keep == {i \in 1..Len(arr) : Last(i)}
      RECURSIVE pick(_)
      pick(i) == IF i > Len(arr) THEN <<>>
                 ELSE (IF i \in keep THEN <<arr[i]>> ELSE <<>>) \o pick(i + 1)
  IN  pick(1)

dedupeByName(arr) == dedupeFrom(arr, {})

\* ------------------------------------------------------------------------
\* Comparators and Array.prototype.sort (stable)
\* ------------------------------------------------------------------------
hasName(list, n) == \E i \in 1..Len(list) : list[i].name = n

\* (variant: a.stars - b.stars, fewest stars first)
mergeCompareAscending(a, b, pinned, pinnedFirst) ==
  LET ai == IF hasName(pinned, a.name) THEN 0 ELSE 1
      bi == IF hasName(pinned, b.name) THEN 0 ELSE 1
  IN  IF pinnedFirst /\ ai # bi THEN ai - bi
      ELSE IF b.stars # a.stars THEN a.stars - b.stars
      ELSE DateMs(b.updated) - DateMs(a.updated)

\* comparator of the merge step (lines 314-322); pinned is (pinned || [])
mergeCompare(a, b, pinned, pinnedFirst) ==
  LET ai == IF hasName(pinned, a.name) THEN 0 ELSE 1
      bi == IF hasName(pinned, b.name) THEN 0 ELSE 1
  IN  IF pinnedFirst /\ ai # bi THEN ai - bi
      ELSE IF b.stars # a.stars THEN b.stars - a.stars
      ELSE DateMs(b.updated) - DateMs(a.updated)

\* collation rank of a character for localeCompare: punctuation, then
\* letters; a lower-case letter just before its upper-case form
CollationOrder ==
  <<" ", "-", ".", "#", "&", "<", ">", "\"", "?",
    "a", "A", "b", "B", "c", "C", "f", "F", "g", "G", "j", "J",
    "l", "k", "n", "o", "p", "r", "s", "S", "u", "U", "w", "x", "y">>
rank(c) ==
  IF \E i \in 1..Len(CollationOrder) : CollationOrder[i] = c
  THEN CHOOSE i \in 1..Len(CollationOrder) : CollationOrder[i] = c
  ELSE Len(CollationOrder) + 1

RECURSIVE localeCompare(_, _)
localeCompare(a, b) ==
  IF a = <<>> /\ b = <<>> THEN 0
  ELSE IF a = <<>> THEN -1
  ELSE IF b = <<>> THEN 1
  ELSE IF rank(Head(a)) # rank(Head(b)) THEN rank(Head(a)) - rank(Head(b))
  ELSE localeCompare(Tail(a), Tail(b))

\* ord names the comparator: "merge", "stars", "updated" or "az"
compare(ord, a, b) ==
  CASE ord.kind = "merge"   -> mergeCompare(a, b, ord.pinned, ord.pinnedFirst)
    [] ord.kind = "stars"   -> b.stars - a.stars
    [] ord.kind = "updated" -> DateMs(b.updated) - DateMs(a.updated)
    [] ord.kind = "az"      -> localeCompare(a.name, b.name)

\* insert x behind every element that does not sort after it
RECURSIVE insertSorted(_, _, _)
insertSorted(sorted, x, ord) ==
  IF sorted = <<>> THEN <<x>>
  ELSE IF compare(ord, sorted[Len(sorted)], x) <= 0 THEN Append(sorted, x)
  ELSE Append(insertSorted(SubSeq(sorted, 1, Len(sorted) - 1), x, ord),
              sorted[Len(sorted)])

RECURSIVE sortFrom(_, _, _)
sortFrom(done, rest, ord) ==
  IF rest = <<>> THEN done
  ELSE sortFrom(insertSorted(done, Head(rest), ord), Tail(rest), ord)

sort(arr, ord) == sortFrom(<<>>, arr, ord)

\* ------------------------------------------------------------------------
\* Cache: saveCache / loadCache over the one localStorage slot.
\* JSON.stringify writes, per record, the properties whose value is not
\* undefined; JSON.parse gives back an object on which a property that was
\* not written reads as undefined.
\* ------------------------------------------------------------------------
None == [some |-> FALSE, v |-> <<>>]
Some(x) == [some |-> TRUE, v |-> x]

textMember(key, val) == IF val = UndefinedT THEN <<>> ELSE << <<key, val>> >>

stringifyRecord(r) ==
  textMember("name", r.name)
    \o textMember("description", r.description)
    \o textMember("html_url", r.html_url)
    \o textMember("homepage", r.homepage)
    \o << <<"stars", r.stars>>, <<"forks", r.forks>>, <<"updated", r.updated>>  >>
    \o textMember("language", r.language)
    \o << <<"topics", r.topics>> >>

member(kvs, key, missing) ==
  IF \E i \in 1..Len(kvs) : kvs[i][1] = key
  THEN kvs[CHOOSE i \in 1..Len(kvs) : kvs[i][1] = key][2]
  ELSE missing

parseRecord(kvs) ==
  [ name        |-> member(kvs, "name", UndefinedT),
    description |-> member(kvs, "description", UndefinedT),
    html_url    |-> member(kvs, "html_url", UndefinedT),
    homepage    |-> member(kvs, "homepage", UndefinedT),
    stars       |-> member(kvs, "stars", NullN),
    forks       |-> member(kvs, "forks", NullN),
    updated     |-> member(kvs, "updated", NullN),
    language    |-> member(kvs, "language", UndefinedT),
    topics      |-> member(kvs, "topics", <<>>) ]

\* values of the storage slot: no item, text that is no JSON, the JSON text
\* of an object without ts and data, and what saveCache writes
NoItem == [kind |-> "none", ts |-> 0, hasData |-> FALSE, data |-> <<>>]
Garbage == [kind |-> "garbage", ts |-> 0, hasData |-> FALSE, data |-> <<>>]
EmptyObject == [kind |-> "json", ts |-> 0, hasData |-> FALSE, data |-> <<>>]

\* the text saveCache(obj) hands to localStorage.setItem at time t
cachePayload(obj, t) ==
  [kind |-> "json", ts |-> t, hasData |-> TRUE, data |-> [i \in 1..Len(obj) |-> stringifyRecord(obj[i])]]

\* (variant: an entry exactly CACHE_TTL old is already stale)
loadCacheOffByOne(raw, t) ==
  IF raw.kind = "none" THEN None
  ELSE IF raw.kind = "garbage" THEN None
  ELSE IF raw.ts = 0 \/ ~raw.hasData THEN None
  ELSE IF t - raw.ts >= CACHE_TTL THEN None
  ELSE Some([i \in 1..Len(raw.data) |-> parseRecord(raw.data[i])])

\* (variant: the age of the entry is not looked at)
loadCacheAnyAge(raw, t) ==
  IF raw.kind = "none" THEN None
  ELSE IF raw.kind = "garbage" THEN None
  ELSE IF raw.ts = 0 \/ ~raw.hasData THEN None
  ELSE Some([i \in 1..Len(raw.data) |-> parseRecord(raw.data[i])])

\* loadCache at time t on the slot's content raw
loadCache(raw, t) ==
  IF raw.kind = "none" THEN None
  ELSE IF raw.kind = "garbage" THEN None
  ELSE IF raw.ts = 0 \/ ~raw.hasData THEN None
  ELSE IF t - raw.ts > CACHE_TTL THEN None
  ELSE Some([i \in 1..Len(raw.data) |-> parseRecord(raw.data[i])])

\* ------------------------------------------------------------------------
\* The merge step of initProjects (lines 303-324)
\* ------------------------------------------------------------------------
keepPrimary(r, exclude) == ~r.fork /\ ~r.archived /\ ~matchesPattern(r.name, exclude)

\* fetched.filter(...).map(normalizeRepo)
mapFetched(fetched, exclude) ==
  LET Keep(r) == keepPrimary(r, exclude)
  IN  [i \in 1..Len(SelectSeq(fetched, Keep)) |-> normalizeRepo(SelectSeq(fetched, Keep)[i])]

\* pinned after line 308; p is None for null
mapPinned(p) == IF p.some THEN Some([i \in 1..Len(p.v) |-> normalizeRepo(p.v[i])]) ELSE None

orEmpty(p) == IF p.some THEN p.v ELSE <<>>

mergeRepos(pinned, mapped, pinnedFirst) ==
  sort(dedupeByName(orEmpty(pinned) \o mapped),
       [kind |-> "merge", pinned |-> orEmpty(pinned), pinnedFirst |-> pinnedFirst])

\* the fallback record of line 331, made at time t
placeholder(t) ==
  [ name        |-> <<"p", "r", "o", "f", "i", "l", "e">>,
    description |-> <<"F", "a", "l", "l", "b", "a", "c", "k", " ", "s", "a", "m",
                      "p", "l", "e", " ", "p", "r", "o", "j", "e", "c", "t">>,
    html_url    |-> <<"#">>,
    homepage    |-> NullT,
    stars       |-> 0,
    forks       |-> 0,
    updated     |-> t,
    language    |-> <<"J", "S">>,
    topics      |-> << <<"f", "a", "l", "l", "b", "a", "c", "k">> >> ]

\* ------------------------------------------------------------------------
\* Rendering: the pieces of text buildCard puts into the card's innerHTML
\* (title, description title and text, language, the two hrefs) and the
\* topic chips, which are set through textContent.
\* ------------------------------------------------------------------------
take(arr, n) == SubSeq(arr, 1, IF Len(arr) < n THEN Len(arr) ELSE n)

buildCard(repo) ==
  [ title     |-> repo.name,
    descTitle |-> escapeHtml(OrT(repo.description, <<>>)),
    desc      |-> escapeHtml(truncate(OrT(repo.description, <<>>), TRUNCATE_N)),
    lang      |-> escapeHtml(OrT(repo.language, <<"-">>)),
    href      |-> repo.html_url,
    demo      |-> IF IsFalsyT(repo.homepage) THEN <<>> ELSE repo.homepage,
    chips     |-> take(repo.topics, 3) ]

\* renderGrid: one card per record (no card: the empty-state message)
renderGrid(list) == [i \in 1..Len(list) |-> buildCard(list[i])]

\* buildFilters: the values offered by the language and topic selects
\* (the option text and value are these values through escapeHtml)
buildFilters(data) ==
  [ langs  |-> {data[i].language : i \in {j \in 1..Len(data) : ~IsFalsyT(data[j].language)}},
    topics |-> UNION {{data[i].topics[k] : k \in 1..Len(data[i].topics)} : i \in 1..Len(data)} ]

\* ------------------------------------------------------------------------
\* applyFilters (lines 356-383): the list handed to renderGrid, and the
\* stored array repos after the call (out is a copy made by slice, and
\* filter returns new arrays, so sorting out leaves repos alone)
\* ------------------------------------------------------------------------
haystack(r) ==
  toLowerCase(r.name \o <<" ">> \o OrT(r.description, <<>>) \o <<" ">>
              \o join(r.topics, <<" ">>))

hasTopic(r, topic) ==
  \E k \in 1..Len(r.topics) : toLowerCase(r.topics[k]) = toLowerCase(topic)

sortOut(out, mode) ==
  IF mode \in {"stars", "updated", "az"}
  THEN sort(out, [kind |-> mode, pinned |-> <<>>, pinnedFirst |-> FALSE])
  ELSE out

\* (variant: the "pinned only" window is applied whatever pinnedFirst is)
filterOutAnyConfig(rs, ui, pinnedFirst) ==
  LET q == trim(toLowerCase(ui.search))
      InWindow(r) == hasName(take(rs, PINNED_WINDOW), r.name)
      HasQuery(r) == includes(haystack(r), q)
      HasLang(r) == toLowerCase(OrT(r.language, <<>>)) = toLowerCase(ui.lang)
      HasTopic(r) == hasTopic(r, ui.topic)
      o1 == IF ui.pinnedOnly THEN SelectSeq(rs, InWindow) ELSE rs
      o2 == IF q # <<>> THEN SelectSeq(o1, HasQuery) ELSE o1
      o3 == IF ui.lang # <<>> THEN SelectSeq(o2, HasLang) ELSE o2
  IN  IF ui.topic # <<>> THEN SelectSeq(o3, HasTopic) ELSE o3

filterOut(rs, ui, pinnedFirst) ==
  LET q == trim(toLowerCase(ui.search))
      InWindow(r) == hasName(take(rs, PINNED_WINDOW), r.name)
      HasQuery(r) == includes(haystack(r), q)
      HasLang(r) == toLowerCase(OrT(r.language, <<>>)) = toLowerCase(ui.lang)
      HasTopic(r) == hasTopic(r, ui.topic)
      o1 == IF pinnedFirst /\ ui.pinnedOnly THEN SelectSeq(rs, InWindow) ELSE rs
      o2 == IF q # <<>> THEN SelectSeq(o1, HasQuery) ELSE o1
      o3 == IF ui.lang # <<>> THEN SelectSeq(o2, HasLang) ELSE o2
  IN  IF ui.topic # <<>> THEN SelectSeq(o3, HasTopic) ELSE o3

\* (variant: let out = repos, without slice: when no filter replaces out,
\* sort reorders the stored array itself)
applyFiltersNoCopy(rs, ui, pinnedFirst) ==
  LET out == sortOut(filterOut(rs, ui, pinnedFirst), ui.sort)
      copied == \/ (pinnedFirst /\ ui.pinnedOnly)
                \/ trim(toLowerCase(ui.search)) # <<>>
                \/ ui.lang # <<>>
                \/ ui.topic # <<>>
  IN  [ out |-> out, repos |-> IF copied THEN rs ELSE out ]

applyFilters(rs, ui, pinnedFirst) ==
  [ out   |-> sortOut(filterOut(rs, ui, pinnedFirst), ui.sort),
    repos |-> rs ]

\* ------------------------------------------------------------------------
\* What GitHub may answer: repository objects of the REST listing and nodes
\* of the GraphQL pinnedItems query
\* ------------------------------------------------------------------------
restRepo(name, stars, pushed, lang, topics, desc, home, fork) ==
  [ name |-> name, description |-> desc,
    html_url |-> <<"g", "/">> \o name, url |-> <<"a", "/">> \o name,
    homepage |-> home, stargazers_count |-> stars, forks_count |-> 0,
    pushed_at |-> pushed, updated_at |-> pushed, language |-> lang,
    topics |-> topics, fork |-> fork, archived |-> FALSE ]

RestCatalog ==
  { restRepo(<<"a", "b">>, 2, 5, <<"G", "o">>, << <<"c", "l", "i">> >>,
             <<"x", "<", "y">>, NullT, FALSE),
    restRepo(<<"b">>, 2, NullN, NullT, <<>>, NullT, <<>>, FALSE),
    restRepo(<<"A", "b">>, 1, 7, <<"J", "S">>, << <<"c", "l", "i">>, <<"w">> >>,
             <<"a", "&", "b">>, <<"h", "?", "a", "&", "b">>, FALSE),
    restRepo(<<"b">>, 2, 9, <<"G", "o">>, <<>>, <<>>, <<"h", "\"", ">">>, FALSE),
    restRepo(<<"c">>, 3, 4, <<"G", "o">>, <<>>, NullT, NullT, TRUE) }

pinnedNode(name, stars, pushed, lang, home) ==
  [ name |-> name, url |-> <<"g", "/">> \o name, description |-> NullT,
    stargazerCount |-> stars, forksTotal |-> NullN, pushedAt |-> pushed,
    primaryLanguage |-> lang, topics |-> <<>>, homepageUrl |-> home ]

PinnedCatalog ==
  { pinnedNode(<<"b">>, 1, 3, <<"G", "o">>, <<"h", "?", "a", "&", "b">>),
    pinnedNode(<<"A", "b">>, 1, 5, NullT, NullT) }

seqsUpTo(S, n) == UNION {[1..k -> S] : k \in 0..n}

\* the objects fetchPinned returns for the nodes (lines 159-169)
fetchPinnedMap(n) ==
  [ name |-> n.name, html_url |-> n.url, url |-> UndefinedT,
    description |-> n.description, stargazers_count |-> n.stargazerCount,
    forks_count |-> IF n.forksTotal = NullN THEN 0 ELSE n.forksTotal,
    pushed_at |-> n.pushedAt, updated_at |-> NullN,
    language |-> OrT(n.primaryLanguage, NullT), topics |-> n.topics,
    homepage |-> OrT(n.homepageUrl, NullT), fork |-> FALSE, archived |-> FALSE ]

ExcludeLists ==
  { <<>>, << <<"a", "*">> >>, << <<"B">>, <<".", "b", "*">> >> }

SortModes == {"stars", "updated", "az", "pinned"}
Controls == {"search", "lang", "topic", "sort", "pinnedOnly"}
Queries == { <<>>, <<"B", " ">> }

\* ------------------------------------------------------------------------
\* State
\* ------------------------------------------------------------------------
VARIABLES
  cfg,      \* the options initProjects is called with
  github,   \* what the two GitHub endpoints hold for the user
  now,      \* Date.now()
  storage,  \* content of the localStorage slot CACHE_KEY
  pc,       \* "idle", "primary" (awaiting fetchRepos), "pinned" (awaiting
            \* fetchPinned) or "ready" (initProjects has returned)
  repos,    \* the variable repos of initProjects (None: null)
  mapped,   \* the variable mapped of the last fetch cycle
  pinned,   \* the variable pinned of the last fetch cycle
  warned,   \* the catch branch of line 326 was taken in this cycle
  ui,       \* values of the five controls
  shown,    \* the list last handed to renderGrid
  timers,   \* pending setTimeout callbacks of the debounced listeners
  events,   \* gestures made on the controls since the page loaded
  written   \* history: the last set saveCache stored, and when

vars ==
  <<cfg, github, now, storage, pc, repos, mapped, pinned, warned, ui, shown, timers,
    events, written>>

DefaultSort == "pinned"

uiDefault(sortMode) ==
  [search |-> <<>>, lang |-> <<>>, topic |-> <<>>, sort |-> sortMode, pinnedOnly |-> FALSE]

\* clock advances taken so far, apart from the waits for a timer
elapsed == now - StartTime
hoursTaken == elapsed \div CACHE_TTL
ticksTaken == (elapsed % CACHE_TTL) % DEBOUNCE_MS
waitsTaken == (elapsed % CACHE_TTL) \div DEBOUNCE_MS

\* a gesture is possible while the bounds on gestures and on the waits for
\* the timers they start are not used up
mayAct == pc = "ready" /\ events < MaxEvents /\ waitsTaken < MaxEvents

InitWith(servers, pinnedServers, storages) ==
  /\ cfg \in [exclude : ExcludeLists, pinnedFirst : BOOLEAN, githubToken : BOOLEAN]
  /\ github \in [repos : servers, pinned : pinnedServers]
  /\ (~cfg.githubToken => github.pinned = <<>>)
  /\ now = StartTime
  /\ storage \in storages
  /\ pc = "idle"
  /\ repos = None
  /\ mapped = None
  /\ pinned = None
  /\ warned = FALSE
  /\ ui = uiDefault(DefaultSort)
  /\ shown = <<>>
  /\ timers = {}
  /\ events = 0
  /\ written = None

\* ------------------------------------------------------------------------
\* initProjects
\* ------------------------------------------------------------------------
\* lines 283-302: the page loads and calls initProjects, which reads the
\* cache and starts the primary fetch.  The controls hold the page's
\* defaults (the sort select is taken to list "pinned" first).
InitProjects ==
  /\ pc \in {"idle", "ready"}
  /\ pc' = "primary"
  /\ repos' = loadCache(storage, now)
  /\ mapped' = None
  /\ pinned' = None
  /\ warned' = FALSE
  /\ ui' = uiDefault(DefaultSort)
  /\ shown' = <<>>
  /\ timers' = {}
  /\ events' = 0
  /\ UNCHANGED <<cfg, github, now, storage, written>>

\* lines 336-410: buildFilters, the first applyFilters and the return
renderWith(rs) ==
  LET done == applyFilters(rs, ui, cfg.pinnedFirst)
  IN  /\ shown' = done.out
      /\ repos' = Some(done.repos)
      /\ pc' = "ready"

\* lines 302-303: fetchRepos fulfils; mapped is computed and fetchPinned awaited
PrimaryResolves ==
  /\ pc = "primary"
  /\ mapped' = Some(mapFetched(github.repos, cfg.exclude))
  /\ pc' = "pinned"
  /\ UNCHANGED <<cfg, github, now, storage, repos, pinned, warned, ui, shown, timers, events, written>>

\* (variant: the catch branch makes the placeholder without looking at repos)
PrimaryRejectsNoCache ==
  /\ pc = "primary"
  /\ warned' = TRUE
  /\ renderWith(<<placeholder(now)>>)
  /\ UNCHANGED <<cfg, github, now, storage, mapped, pinned, ui, timers, events, written>>

\* lines 326-334 and on: fetchRepos rejects (network error or non-2xx)
PrimaryRejects ==
  /\ pc = "primary"
  /\ warned' = TRUE
  /\ renderWith(IF repos.some THEN repos.v ELSE <<placeholder(now)>>)
  /\ UNCHANGED <<cfg, github, now, storage, mapped, pinned, ui, timers, events, written>>

\* lines 307-325 and on: fetchPinned settles (null without a token, on a
\* non-2xx answer and when it throws); merge, sort, saveCache (setItem may
\* throw, which is ignored), render
PinnedSettles ==
  /\ pc = "pinned"
  /\ \E p \in {None} \cup (IF cfg.githubToken
                           THEN {Some([i \in 1..Len(github.pinned) |-> fetchPinnedMap(github.pinned[i])])}
                           ELSE {}) :
       /\ pinned' = mapPinned(p)
       /\ LET merged == mergeRepos(mapPinned(p), mapped.v, cfg.pinnedFirst)
          IN  /\ \/ /\ storage' = cachePayload(merged, now)
                    /\ written' = Some([data |-> merged, at |-> now])
                 \/ UNCHANGED <<storage, written>>
              /\ renderWith(merged)
  /\ UNCHANGED <<cfg, github, now, mapped, warned, ui, timers, events>>

\* time passes (d ms); a pending timer is not skipped
passes(d) ==
  /\ \A t \in timers : now + d <= t.at
  /\ now' = now + d
  /\ UNCHANGED <<cfg, github, storage, pc, repos, mapped, pinned, warned, ui, shown,
                 timers, events, written>>

Tick == ticksTaken < MaxTicks /\ passes(1)

HourPasses == hoursTaken < MaxHours /\ passes(CACHE_TTL)

\* ------------------------------------------------------------------------
\* The filter panel (lines 401-408) and debounce (line 414)
\* ------------------------------------------------------------------------
\* the debounced listener of control el runs at time t:
\* clearTimeout(t); t = setTimeout(fn, ms)
\* (variant: no clearTimeout, the earlier timer stays pending)
debounceNoClear(ts, el, t) == ts \cup {[el |-> el, at |-> t + DEBOUNCE_MS]}

debounce(ts, el, t) ==
  {e \in ts : e.el # el} \cup {[el |-> el, at |-> t + DEBOUNCE_MS]}

\* applyFilters as a listener: re-render from the controls' current values
cycle(newUi) ==
  LET done == applyFilters(repos.v, newUi, cfg.pinnedFirst)
  IN  /\ shown' = done.out
      /\ repos' = Some(done.repos)

\* a key stroke in the search box: 'input' on search
TypeSearch ==
  /\ mayAct
  /\ events' = events + 1
  /\ \E v \in Queries \ {ui.search} : ui' = [ui EXCEPT !.search = v]
  /\ timers' = debounce(timers, "search", now)
  /\ UNCHANGED <<cfg, github, now, storage, pc, repos, mapped, pinned, warned, shown, written>>

\* the search box commits its value: 'change' on search
CommitSearch ==
  /\ mayAct
  /\ events' = events + 1
  /\ cycle(ui)
  /\ UNCHANGED <<cfg, github, now, storage, pc, mapped, pinned, warned, ui, timers, written>>

\* the user picks another option of a select, which dispatches 'input' and
\* then 'change' on it
selectOptions(el) ==
  CASE el = "lang"  -> {<<>>} \cup buildFilters(repos.v).langs
    [] el = "topic" -> {<<>>} \cup buildFilters(repos.v).topics
    [] el = "sort"  -> SortModes

Select ==
  /\ mayAct
  /\ events' = events + 1
  /\ \E el \in {"lang", "topic", "sort"} :
       \E v \in selectOptions(el) \ {ui[el]} :
         /\ ui' = [ui EXCEPT ![el] = v]
         /\ timers' = debounce(timers, el, now)
         /\ cycle([ui EXCEPT ![el] = v])
  /\ UNCHANGED <<cfg, github, now, storage, pc, mapped, pinned, warned, written>>

\* the user toggles the check box: 'input' and then 'change' on it
TogglePinnedOnly ==
  /\ mayAct
  /\ events' = events + 1
  /\ ui' = [ui EXCEPT !.pinnedOnly = ~ui.pinnedOnly]
  /\ timers' = debounce(timers, "pinnedOnly", now)
  /\ cycle([ui EXCEPT !.pinnedOnly = ~ui.pinnedOnly])
  /\ UNCHANGED <<cfg, github, now, storage, pc, mapped, pinned, warned, written>>

\* the earliest pending timer comes due and its callback runs applyFilters
TimerFires ==
  /\ pc = "ready"
  /\ \E t \in timers :
       /\ \A u \in timers : t.at <= u.at
       /\ now' = IF t.at > now THEN t.at ELSE now
       /\ timers' = timers \ {t}
  /\ cycle(ui)
  /\ UNCHANGED <<cfg, github, storage, pc, mapped, pinned, warned, ui, events, written>>

\* the fetch cycle alone, at one instant
NextMerge ==
  \/ InitProjects
  \/ PrimaryResolves
  \/ PrimaryRejects
  \/ PinnedSettles

\* the fetch cycle and the cache over time
NextFetch ==
  \/ InitProjects
  \/ PrimaryResolves
  \/ PrimaryRejects
  \/ PinnedSettles
  \/ Tick
  \/ HourPasses

\* the panel of one loaded page
NextPanel ==
  \/ TypeSearch
  \/ CommitSearch
  \/ Select
  \/ TogglePinnedOnly
  \/ TimerFires
  \/ Tick

Next ==
  \/ InitProjects
  \/ PrimaryResolves
  \/ PrimaryRejects
  \/ PinnedSettles
  \/ Tick
  \/ HourPasses
  \/ TypeSearch
  \/ CommitSearch
  \/ Select
  \/ TogglePinnedOnly
  \/ TimerFires

\* a listing longer than the "pinned only" window
wideName(i) == <<"r", <<"a", "b", "c", "d", "e", "f", "g", "h", "i", "j", "k", "l">>[i]>>
wideListing ==
  [i \in 1..(PINNED_WINDOW + 1) |->
     restRepo(wideName(i), i % 3, 20 - i,
              IF i % 2 = 0 THEN <<"G", "o">> ELSE <<"J", "S">>,
              IF i % 4 = 0 THEN << <<"c", "l", "i">> >> ELSE <<>>,
              NullT, NullT, FALSE)]

\* one listing, with any pinned listing and one exclude pattern
Init ==
  /\ InitWith({r \in [1..2 -> RestCatalog] :
                 r[1].name = <<"a", "b">> /\ r[2].name = <<"b">> /\ r[2].pushed_at # NullN},
              seqsUpTo(PinnedCatalog, 1), {NoItem})
  /\ cfg.exclude = << <<"a", "*">> >>

Spec == Init /\ [][Next]_vars

\* every short listing, for the merge step
InitMerge ==
  InitWith(seqsUpTo(RestCatalog, MaxListing), seqsUpTo(PinnedCatalog, MaxPinned),
           {NoItem})

SpecMerge == InitMerge /\ [][NextMerge]_vars

\* a few listings and every state of the slot, for the cache over time
cacheListings ==
  LET two == {r \in RestCatalog : r.name = <<"a", "b">> \/ r.pushed_at = NullN}
  IN  seqsUpTo(two, MaxListing)

InitFetch ==
  /\ InitWith(cacheListings, seqsUpTo(PinnedCatalog, 1), {NoItem, Garbage, EmptyObject})
  /\ cfg.exclude = <<>>
  /\ cfg.pinnedFirst

SpecFetch == InitFetch /\ [][NextFetch]_vars

\* the page as initProjects leaves it after a successful cycle, for the panel
panelListings ==
  { wideListing,
    [i \in 1..3 |-> wideListing[i]] }

panelPinned == {<<n>> : n \in {m \in PinnedCatalog : m.name = <<"b">>}}

InitPanel ==
  /\ cfg \in [exclude : {<<>>}, pinnedFirst : BOOLEAN, githubToken : BOOLEAN]
  /\ github \in [repos : panelListings, pinned : {<<>>} \cup panelPinned]
  /\ (cfg.githubToken <=> github.pinned # <<>>)
  /\ now = StartTime
  /\ pc = "ready"
  /\ warned = FALSE
  /\ mapped = Some(mapFetched(github.repos, cfg.exclude))
  /\ pinned = mapPinned(IF cfg.githubToken
                        THEN Some([i \in 1..Len(github.pinned) |-> fetchPinnedMap(github.pinned[i])]) ELSE None)
  /\ repos = Some(mergeRepos(pinned, mapped.v, cfg.pinnedFirst))
  /\ storage = cachePayload(repos.v, now)
  /\ written = Some([data |-> repos.v, at |-> now])
  /\ ui = uiDefault(DefaultSort)
  /\ shown = applyFilters(repos.v, ui, cfg.pinnedFirst).out
  /\ timers = {}
  /\ events = 0

SpecPanel == InitPanel /\ [][NextPanel]_vars

\* ========================================================================
\* Properties
\* ========================================================================
fetchedOk == pc = "ready" /\ ~warned
names(list) == {list[i].name : i \in 1..Len(list)}
uniqueNames(list) == \A i, j \in 1..Len(list) : list[i].name = list[j].name => i = j

\* a wildcard pattern as the configuration documents it: * stands for any
\* run of characters, every other character for itself, whatever its case,
\* and the pattern covers the whole name
RECURSIVE wildcardMatch(_, _)
wildcardMatch(p, name) ==
  IF p = <<>> THEN name = <<>>
  ELSE IF Head(p) = "*"
    THEN wildcardMatch(Tail(p), name) \/ (name # <<>> /\ wildcardMatch(p, Tail(name)))
  ELSE /\ name # <<>>
       /\ toLowerChar(Head(p)) = toLowerChar(Head(name))
       /\ wildcardMatch(Tail(p), Tail(name))

excluded(name) == \E k \in 1..Len(cfg.exclude) : wildcardMatch(cfg.exclude[k], name)

\* C1: after a successful fetch cycle no repository whose name matches an
\* exclude pattern is in the merged set that is returned, rendered and
\* cached, the repositories of the pinned listing included.
C1_ExcludedAbsent ==
  fetchedOk =>
    /\ \A n \in names(repos.v) : ~excluded(n)
    /\ \A n \in names(shown) : ~excluded(n)
    /\ (written.some /\ written.v.at = now) => \A n \in names(written.v.data) : ~excluded(n)

\* C4: the merged set of a successful cycle has no two records of one name,
\* each of its records is the first of its name in pinned-then-primary
\* order, no name is lost, and every set written to the cache has unique
\* names.
C4_DedupeFirstWins ==
  /\ fetchedOk =>
       LET concat == orEmpty(pinned) \o mapped.v
       IN  /\ uniqueNames(repos.v)
           /\ names(repos.v) = names(concat)
           /\ \A i \in 1..Len(repos.v) :
                \E k \in 1..Len(concat) :
                  /\ concat[k] = repos.v[i]
                  /\ \A j \in 1..(k - 1) : concat[j].name # repos.v[i].name
  /\ written.some => uniqueNames(written.v.data)
  /\ storage.hasData => uniqueNames([i \in 1..Len(storage.data) |-> parseRecord(storage.data[i])])

\* a pinned record and a primary record of one name met, and the pinned won
C4_Witness ==
  /\ fetchedOk
  /\ written.some
  /\ \E i \in 1..Len(orEmpty(pinned)) : \E j \in 1..Len(mapped.v) :
       /\ pinned.v[i].name = mapped.v[j].name
       /\ pinned.v[i] # mapped.v[j]
       /\ \E k \in 1..Len(repos.v) : repos.v[k] = pinned.v[i]

\* C5: the merged set of a successful cycle is ordered by the composite key:
\* with pinnedFirst no record outside the pinned set precedes one inside it;
\* within a class stars do not increase; among equal stars of a class the
\* updated time does not increase, a record without one coming last.
inPinned(r) == hasName(orEmpty(pinned), r.name)
sameClass(x, y) == ~cfg.pinnedFirst \/ (inPinned(x) <=> inPinned(y))
notOlder(x, y) == y.updated = NullN \/ (x.updated # NullN /\ x.updated >= y.updated)

C5_MergeOrder ==
  fetchedOk =>
    \A i, j \in 1..Len(repos.v) :
      i < j =>
        LET x == repos.v[i]
            y == repos.v[j]
        IN  /\ cfg.pinnedFirst => ~(inPinned(y) /\ ~inPinned(x))
            /\ sameClass(x, y) => x.stars >= y.stars
            /\ (sameClass(x, y) /\ x.stars = y.stars) => notOlder(x, y)

\* a pinned record with fewer stars leads, and behind it two records of
\* equal stars stand newest first with the one without a time last
C5_Witness ==
  /\ fetchedOk
  /\ cfg.pinnedFirst
  /\ Len(repos.v) = 3
  /\ inPinned(repos.v[1]) /\ ~inPinned(repos.v[2])
  /\ repos.v[1].stars < repos.v[2].stars
  /\ repos.v[2].stars = repos.v[3].stars
  /\ repos.v[2].updated # NullN /\ repos.v[3].updated = NullN

\* C7: every field of a record that buildCard writes into the card's
\* innerHTML (name, description, language, source URL, homepage URL) is
\* written as escapeHtml gives it.
C7_CardFieldsEscaped ==
  pc = "ready" =>
    \A i \in 1..Len(shown) :
      LET r == shown[i]
          card == renderGrid(shown)[i]
      IN  /\ card.title = escapeHtml(r.name)
          /\ card.descTitle = escapeHtml(OrT(r.description, <<>>))
          /\ card.lang = escapeHtml(OrT(r.language, <<"-">>))
          /\ card.href = escapeHtml(r.html_url)
          /\ ~IsFalsyT(r.homepage) => card.demo = escapeHtml(r.homepage)

\* C2: when the primary fetch fails, initProjects still returns and leaves
\* the slot as it is; with an entry within the TTL in the slot the set that
\* is returned and rendered is the cached set, in its order; with no item in
\* the slot it is the one placeholder record named "profile".
profileName == <<"p", "r", "o", "f", "i", "l", "e">>
fresh(t) == written.some /\ t - written.v.at <= CACHE_TTL
stale(t) == written.some /\ t - written.v.at > CACHE_TTL

C2_FallbackOnFailure ==
  [][ (pc = "primary" /\ warned') =>
        /\ pc' = "ready"
        /\ storage' = storage
        /\ fresh(now) => (repos' = Some(written.v.data) /\ shown' = written.v.data)
        /\ storage.kind = "none" =>
             (Len(repos'.v) = 1 /\ repos'.v[1].name = profileName /\ shown' = repos'.v)
    ]_vars

\* the fetch failed with an entry exactly CACHE_TTL old, which is used
C2_Witness ==
  /\ pc = "ready" /\ warned
  /\ written.some /\ Len(written.v.data) >= 1
  /\ now - written.v.at = CACHE_TTL
  /\ repos = Some(written.v.data)
  /\ shown = written.v.data

\* C3 as stated: when the primary fetch fails with an entry older than the
\* TTL in the slot, the cached set is still what initProjects goes on with.
C3_StaleCacheKept ==
  (pc = "ready" /\ warned /\ stale(now)) => repos = Some(written.v.data)

\* C3 as the code has it: an entry older than the TTL when initProjects
\* reads the slot reads as null, null stays until the fetch settles, and a
\* failed fetch then renders the one placeholder record.
C3_StaleCacheIgnored ==
  [][ /\ (pc # "primary" /\ pc' = "primary" /\ stale(now)) => repos' = None
      /\ (pc = "primary" /\ pc' = "primary") => repos' = repos
      /\ (pc = "primary" /\ warned' /\ ~repos.some) =>
           (repos' = Some(<<placeholder(now)>>) /\ shown' = repos'.v)
    ]_vars

\* the fetch failed with a stale entry of at least one record in the slot
C3_Witness ==
  /\ pc = "ready" /\ warned
  /\ stale(now) /\ Len(written.v.data) >= 1
  /\ storage.kind = "json" /\ storage.hasData
  /\ Len(repos.v) = 1 /\ repos.v[1].name = profileName

\* C8: once saveCache has stored a set S at time t, loadCache gives S back
\* at any time up to t + CACHE_TTL and null after it; a slot without item,
\* or holding text that is no cache entry, reads as null.
C8_CacheRoundTrip ==
  /\ written.some =>
       loadCache(storage, now) = IF now - written.v.at <= CACHE_TTL
                                 THEN Some(written.v.data) ELSE None
  /\ ~written.some => loadCache(storage, now) = None

\* initProjects has just read, exactly CACHE_TTL after it was stored, a set
\* of at least one record
C8_Witness ==
  /\ pc = "primary"
  /\ written.some /\ Len(written.v.data) >= 1
  /\ now - written.v.at = CACHE_TTL
  /\ repos = Some(written.v.data)

\* no filter but, possibly, the "pinned only" toggle is set
noFilter(u) == u.search = <<>> /\ u.lang = <<>> /\ u.topic = <<>>
\* what is shown was rendered from the current value of the search box
searchRendered(ts) == \A t \in ts : t.el # "search"
window == names(take(repos.v, PINNED_WINDOW))

\* C6 as stated: whenever the "pinned only" toggle is checked, whatever
\* pinnedFirst is, only records among the first 10 of the full set are shown.
C6_PinnedOnlyWindow ==
  (pc = "ready" /\ ui.pinnedOnly) => names(shown) \subseteq window

\* C6 as the code has it: with pinnedFirst enabled and the toggle checked,
\* only records among the first 10 of the full set are shown; with the
\* toggle unchecked, or pinnedFirst disabled, the full set is what the other
\* filters work on (with none set, every record is shown).
C6_PinnedOnlyWhenPinnedFirst ==
  /\ (pc = "ready" /\ cfg.pinnedFirst /\ ui.pinnedOnly) =>
       /\ names(shown) \subseteq window
       /\ (noFilter(ui) /\ searchRendered(timers)) => names(shown) = window
  /\ (pc = "ready" /\ ~(cfg.pinnedFirst /\ ui.pinnedOnly)
        /\ noFilter(ui) /\ searchRendered(timers)) =>
       names(shown) = names(repos.v)

\* with pinnedFirst, the toggle cut a longer set down to the first 10
C6_Witness ==
  /\ pc = "ready" /\ cfg.pinnedFirst /\ ui.pinnedOnly
  /\ Len(repos.v) > PINNED_WINDOW
  /\ Len(shown) = PINNED_WINDOW

\* C9: no gesture on the controls changes the stored set or its order, and
\* with sort mode 'pinned' and no filter the full set is shown in merge
\* order, whatever was selected before.
C9_StoredSetUntouched ==
  [][ /\ (pc = "ready" /\ pc' = "ready") => repos' = repos
      /\ (pc' = "ready" /\ ~warned') =>
           repos'.v = mergeRepos(pinned', mapped'.v, cfg'.pinnedFirst)
      /\ (pc' = "ready" /\ ui'.sort = "pinned" /\ noFilter(ui') /\ ~ui'.pinnedOnly
            /\ searchRendered(timers')) => shown' = repos'.v
    ]_vars

\* sort mode 'pinned' is selected again after another mode had reordered
\* what is shown
C9_Witness ==
  /\ pc = "ready" /\ events = 2
  /\ ui.sort = "pinned" /\ noFilter(ui) /\ ~ui.pinnedOnly
  /\ \E t \in timers : t.el = "sort" /\ t.at = now + DEBOUNCE_MS
  /\ Len(repos.v) >= 3
  /\ shown = repos.v
  /\ sortOut(repos.v, "az") # repos.v
  /\ sortOut(repos.v, "stars") # repos.v

\* C10: an 'input' on the search box renders nothing and leaves one timer
\* for it, due DEBOUNCE_MS later, so that a burst ends in one cycle, run one
\* delay after its last event; a timer that fires runs the cycle then; a
\* 'change' of a select, of the check box or of the search box runs the
\* cycle in the same step.
C10_Debounce ==
  [][ /\ (pc = "ready" /\ pc' = "ready" /\ ui'.search # ui.search) =>
           /\ shown' = shown
           /\ now' = now
           /\ {t \in timers' : t.el = "search"} = {[el |-> "search", at |-> now + DEBOUNCE_MS]}
      /\ (pc = "ready" /\ pc' = "ready" /\ timers' # timers /\ timers' \subseteq timers) =>
           /\ Cardinality(timers \ timers') = 1
           /\ \A t \in timers \ timers' : now' = t.at
           /\ shown' = sortOut(filterOut(repos.v, ui, cfg.pinnedFirst), ui.sort)
      /\ (pc = "ready" /\ pc' = "ready" /\ ui' # ui /\ ui'.search = ui.search) =>
           /\ now' = now
           /\ shown' = sortOut(filterOut(repos.v, ui', cfg.pinnedFirst), ui'.sort)
      /\ (pc = "ready" /\ pc' = "ready" /\ events' # events /\ ui' = ui) =>
           /\ now' = now
           /\ shown' = sortOut(filterOut(repos.v, ui, cfg.pinnedFirst), ui.sort)
      /\ \A t, u \in timers' : t.el = u.el => t = u
    ]_vars

\* two 'input' events on the search box, one millisecond apart, have left
\* one timer, due one delay after the second, and nothing was rendered
C10_Witness ==
  /\ pc = "ready" /\ events = 2
  /\ now = StartTime + 1
  /\ ui = uiDefault(DefaultSort)
  /\ timers = {[el |-> "search", at |-> StartTime + 1 + DEBOUNCE_MS]}
  /\ shown = repos.v

====
